---- MODULE Spec2Model ----
(***************************************************************************)
(* Little Lemon backend: the cart, order and booking handlers of           *)
(* LittleLemonAPI/views.py and restaurant/views.py over the tables of      *)
(* LittleLemonAPI/models.py.  Money is counted in cents.  Every ORM call   *)
(* is one autocommitted statement; handlers whose statements other         *)
(* requests can interleave with (place order, create booking) advance one  *)
(* statement per step, the others run as one step.                         *)
(***************************************************************************)
EXTENDS Integers, FiniteSets, Sequences, TLC

VARIABLES menu, cart, orders, orderItems, nextOrderId, managers, crew,
          req, bookings, breq, response

vars == <<menu, cart, orders, orderItems, nextOrderId, managers, crew,
          req, bookings, breq, response>>

----------------------------------------------------------------------------
(* Bounds of the model *)

\* orders placed in a run with staff requests, and in a run with cart requests
MaxOrders == 2
MaxCheckoutOrders == 1
\* Booking rows present when a Create booking request starts
MaxBookings == 2

(* Input domains *)

Users == {"admin", "u1", "u2"}
Superusers == {"admin"}
Anonymous == "anon"
Requesters == Users \cup {Anonymous}
MenuItems == {"m1", "m2"}
Quantities == {1, 2}
Slots == {<<"d1", 10>>, <<"d1", 11>>}
Names == {"ann", "ben"}
Null == "null"
\* date.today(): every request of a run falls on one day
Today == "today"
Customers == {"u1", "u2"}
Staff == {"admin", "u2"}
Reqs == {"r1", "r2"}

\* MenuItem.price of the rows present in the menu table (cents)
Price(m) == IF m = "m1" THEN 400000 ELSE 600000

\* DecimalField(max_digits=6, decimal_places=2): the largest storable value
MaxDecimal == 999999

RECURSIVE SumPrice(_)
\* math.fsum([float(x[-1]) for x in x]): the last column of a cart row is price
SumPrice(rows) ==
    IF rows = {} THEN 0
    ELSE LET r == CHOOSE r \in rows : TRUE
         IN r.price + SumPrice(rows \ {r})

\* whether a value fits DecimalField(max_digits=6, decimal_places=2) on save
FitsDecimal(v) == v >= 0 - MaxDecimal /\ v <= MaxDecimal

----------------------------------------------------------------------------
(* Permission classes *)

IsAuthenticated(u) == u \in Users

IsAdminUser(u) == u \in Superusers

IsManager(u) == u \in managers

IsDeliveryCrew(u) == u \in crew

----------------------------------------------------------------------------
(* Queries *)

CartOf(u) == {c \in cart : c.user = u}

OrderById(pk) == CHOOSE o \in orders : o.id = pk

OrderExists(pk) == \E o \in orders : o.id = pk

ItemsOf(pk) == {i \in orderItems : i.order = pk}

Idle == [pc |-> "idle", user |-> Null, x |-> {}, order |-> 0, rows |-> {},
         cur |-> Null]

BIdle == [pc |-> "idle", name |-> Null, slot |-> Null]

Init ==
    /\ menu = MenuItems
    /\ cart = {}
    /\ orders = {}
    /\ orderItems = {}
    /\ nextOrderId = 1
    /\ managers = {}
    /\ crew = {}
    /\ req = [r \in Reqs |-> Idle]
    /\ bookings = <<>>
    /\ breq = [r \in Reqs |-> BIdle]
    /\ response = 0

----------------------------------------------------------------------------
(* Cart service: CartOperationsView *)

\* CartAddSerializer.is_valid: quantity is a positive integer
CartAddSerializerValid(q) == q >= 1

\* the insert with the unique_together constraint missing
CartCreateNoUnique(u, m, price) == m \in menu /\ FitsDecimal(price)

\* Cart.objects.create under unique_together = ('menuitem', 'user')
CartCreateOk(u, m, price) ==
    /\ ~ \E c \in cart : c.user = u /\ c.menuitem = m
    /\ m \in menu
    /\ FitsDecimal(price)

CartPost(u, m, q) ==
    /\ UNCHANGED <<menu, orders, orderItems, nextOrderId, managers, crew,
                   req, bookings, breq>>
    /\ IF ~IsAuthenticated(u)
       THEN response' = 401 /\ UNCHANGED cart
       ELSE IF ~CartAddSerializerValid(q)
       THEN response' = 400 /\ UNCHANGED cart
       ELSE IF m \notin menu
       THEN response' = 404 /\ UNCHANGED cart
       ELSE LET price == q * Price(m)
            IN IF CartCreateOk(u, m, price)
               THEN /\ cart' = cart \cup {[user |-> u, menuitem |-> m,
                                           quantity |-> q,
                                           unit_price |-> Price(m),
                                           price |-> price]}
                    /\ response' = 201
               ELSE response' = 409 /\ UNCHANGED cart

CartDelete(u, m) ==
    /\ UNCHANGED <<menu, orders, orderItems, nextOrderId, managers, crew,
                   req, bookings, breq>>
    /\ IF ~IsAuthenticated(u)
       THEN response' = 401 /\ UNCHANGED cart
       ELSE IF m # Null
       THEN IF \E c \in CartOf(u) : c.menuitem = m
            THEN /\ cart' = {c \in cart : ~(c.user = u /\ c.menuitem = m)}
                 /\ response' = 200
            ELSE response' = 404 /\ UNCHANGED cart
       ELSE /\ cart' = cart \ CartOf(u)
            /\ response' = 201

\* MenuItemDetailView DELETE: Cart.menuitem and OrderItem.menuitem cascade
MenuItemDelete(u, m) ==
    /\ UNCHANGED <<orders, nextOrderId, managers, crew, req, bookings, breq>>
    /\ IF ~IsAuthenticated(u)
       THEN response' = 401 /\ UNCHANGED <<menu, cart, orderItems>>
       ELSE IF ~IsAdminUser(u)
       THEN response' = 403 /\ UNCHANGED <<menu, cart, orderItems>>
       ELSE IF m \notin menu
       THEN response' = 404 /\ UNCHANGED <<menu, cart, orderItems>>
       ELSE /\ menu' = menu \ {m}
            /\ cart' = {c \in cart : c.menuitem # m}
            /\ orderItems' = {i \in orderItems : i.menuitem # m}
            /\ response' = 204

----------------------------------------------------------------------------
(* Order service: OrderOperationsView.post, one statement per step *)

\* the handler with the len(x) == 0 test missing
PlaceOrderBeginNoCheck(r, u) ==
    /\ req[r].pc = "idle"
    /\ UNCHANGED <<menu, cart, orders, orderItems, nextOrderId, managers,
                   crew, bookings, breq>>
    /\ IF ~IsAuthenticated(u)
       THEN response' = 401 /\ UNCHANGED req
       ELSE /\ req' = [req EXCEPT ![r] = [Idle EXCEPT !.pc = "create",
                                          !.user = u, !.x = CartOf(u)]]
            /\ response' = 0

\* the handler holding a per-user lock from its first cart read to its end
PlaceOrderBeginLocked(r, u) ==
    /\ req[r].pc = "idle"
    /\ \A s \in Reqs : req[s].pc = "idle" \/ req[s].user # u
    /\ UNCHANGED <<menu, cart, orders, orderItems, nextOrderId, managers,
                   crew, bookings, breq>>
    /\ IF ~IsAuthenticated(u)
       THEN response' = 401 /\ UNCHANGED req
       ELSE IF CartOf(u) = {}
       THEN response' = 400 /\ UNCHANGED req
       ELSE /\ req' = [req EXCEPT ![r] = [Idle EXCEPT !.pc = "create",
                                          !.user = u, !.x = CartOf(u)]]
            /\ response' = 0

\* cart = Cart.objects.filter(user); x = cart.values_list(); len(x) == 0
PlaceOrderBegin(r, u) ==
    /\ req[r].pc = "idle"
    /\ UNCHANGED <<menu, cart, orders, orderItems, nextOrderId, managers,
                   crew, bookings, breq>>
    /\ IF ~IsAuthenticated(u)
       THEN response' = 401 /\ UNCHANGED req
       ELSE IF CartOf(u) = {}
       THEN response' = 400 /\ UNCHANGED req
       ELSE /\ req' = [req EXCEPT ![r] = [Idle EXCEPT !.pc = "create",
                                          !.user = u, !.x = CartOf(u)]]
            /\ response' = 0

\* total = math.fsum(...); order = Order.objects.create(...)
PlaceOrderCreate(r) ==
    /\ req[r].pc = "create"
    /\ UNCHANGED <<menu, cart, orderItems, managers, crew, bookings, breq>>
    /\ LET total == SumPrice(req[r].x)
       IN IF FitsDecimal(total)
          THEN /\ orders' = orders \cup
                     {[id |-> nextOrderId, user |-> req[r].user,
                       delivery_crew |-> Null, status |-> FALSE,
                       total |-> total, date |-> Today]}
               /\ nextOrderId' = nextOrderId + 1
               /\ req' = [req EXCEPT ![r].pc = "read",
                                     ![r].order = nextOrderId]
               /\ response' = 0
          ELSE /\ req' = [req EXCEPT ![r] = Idle]
               /\ response' = 500
               /\ UNCHANGED <<orders, nextOrderId>>

\* for i in cart.values(): the queryset is evaluated again
PlaceOrderRead(r) ==
    /\ req[r].pc = "read"
    /\ UNCHANGED <<menu, cart, orders, orderItems, nextOrderId, managers,
                   crew, bookings, breq>>
    /\ req' = [req EXCEPT ![r].pc = "loop", ![r].rows = CartOf(req[r].user)]
    /\ response' = 0

\* menuitem = get_object_or_404(MenuItem, id=i['menuitem_id'])
PlaceOrderGetItem(r) ==
    /\ req[r].pc = "loop"
    /\ UNCHANGED <<menu, cart, orders, orderItems, nextOrderId, managers,
                   crew, bookings, breq>>
    /\ \E i \in req[r].rows :
          IF i.menuitem \in menu
          THEN /\ req' = [req EXCEPT ![r].pc = "item", ![r].cur = i]
               /\ response' = 0
          ELSE /\ req' = [req EXCEPT ![r] = Idle]
               /\ response' = 404

\* OrderItem.objects.create(order=order, menuitem=menuitem, quantity=...);
\* both foreign keys must still point to a row; orderitem.save() rewrites it
PlaceOrderCreateItem(r) ==
    /\ req[r].pc = "item"
    /\ UNCHANGED <<menu, cart, orders, nextOrderId, managers, crew,
                   bookings, breq>>
    /\ LET i == req[r].cur
       IN IF OrderExists(req[r].order) /\ i.menuitem \in menu
          THEN /\ orderItems' = orderItems \cup
                     {[order |-> req[r].order, menuitem |-> i.menuitem,
                       quantity |-> i.quantity]}
               /\ req' = [req EXCEPT ![r].pc = "loop",
                                     ![r].rows = req[r].rows \ {i},
                                     ![r].cur = Null]
               /\ response' = 0
          ELSE /\ req' = [req EXCEPT ![r] = Idle]
               /\ response' = 500
               /\ UNCHANGED orderItems

\* cart.delete(); return JsonResponse(status=201, ...)
PlaceOrderClear(r) ==
    /\ req[r].pc = "loop"
    /\ req[r].rows = {}
    /\ UNCHANGED <<menu, orders, orderItems, nextOrderId, managers, crew,
                   bookings, breq>>
    /\ cart' = cart \ CartOf(req[r].user)
    /\ req' = [req EXCEPT ![r] = Idle]
    /\ response' = 201

----------------------------------------------------------------------------

(* Order service: OrderOperationsView.get_queryset / get, SingleOrderView *)

\* the listing with the delivery crew branch filtering on the wrong column
get_querysetCrewAsUser(u) ==
    IF u \in managers \/ u \in Superusers
    THEN orders
    ELSE {o \in orders : o.user = u}

get_queryset(u) ==
    IF u \in managers \/ u \in Superusers
    THEN orders
    ELSE IF u \in crew
    THEN {o \in orders : o.delivery_crew = u}
    ELSE {o \in orders : o.user = u}

OrderList(u) ==
    /\ UNCHANGED <<menu, cart, orders, orderItems, nextOrderId, managers,
                   crew, req, bookings, breq>>
    /\ response' = IF IsAuthenticated(u) THEN 200 ELSE 401

\* the gate with the owner branch taken for every method
SingleOrderPermittedOwnerAny(u, method, order) ==
    IF u = order.user
    THEN IsAuthenticated(u)
    ELSE IF method \in {"PUT", "DELETE"}
    THEN IsAuthenticated(u) /\ (IsManager(u) \/ IsAdminUser(u))
    ELSE IsAuthenticated(u) /\ (IsDeliveryCrew(u) \/ IsManager(u) \/ IsAdminUser(u))

\* SingleOrderView.get_permissions, after Order.objects.get found the order
SingleOrderPermitted(u, method, order) ==
    IF u = order.user /\ method = "GET"
    THEN IsAuthenticated(u)
    ELSE IF method \in {"PUT", "DELETE"}
    THEN IsAuthenticated(u) /\ (IsManager(u) \/ IsAdminUser(u))
    ELSE IsAuthenticated(u) /\ (IsDeliveryCrew(u) \/ IsManager(u) \/ IsAdminUser(u))

\* the response that ends the request before its handler runs, 0 when none does
SingleOrderGate(u, method, pk) ==
    IF ~OrderExists(pk) THEN 500
    ELSE IF SingleOrderPermitted(u, method, OrderById(pk)) THEN 0
    ELSE IF IsAuthenticated(u) THEN 403 ELSE 401

\* the toggle written as "mark delivered"
ToggleStatusSetTrue(o) == [o EXCEPT !.status = TRUE]

\* order.status = not order.status
ToggleStatus(o) == [o EXCEPT !.status = ~o.status]

\* order.delivery_crew = crew
AssignCrew(o, target) == [o EXCEPT !.delivery_crew = target]

\* OrderPutSerializer.is_valid: a delivery_crew value is given
OrderPutSerializerValid(target) == target # Null

SingleOrderGet(u, pk) ==
    /\ UNCHANGED <<menu, cart, orders, orderItems, nextOrderId, managers,
                   crew, req, bookings, breq>>
    /\ response' = IF SingleOrderGate(u, "GET", pk) = 0 THEN 200
                   ELSE SingleOrderGate(u, "GET", pk)

SingleOrderPatch(u, pk) ==
    /\ UNCHANGED <<menu, cart, orderItems, nextOrderId, managers, crew, req,
                   bookings, breq>>
    /\ IF SingleOrderGate(u, "PATCH", pk) # 0
       THEN response' = SingleOrderGate(u, "PATCH", pk) /\ UNCHANGED orders
       ELSE /\ orders' = (orders \ {OrderById(pk)})
                            \cup {ToggleStatus(OrderById(pk))}
            /\ response' = 200

SingleOrderPut(u, pk, target) ==
    /\ UNCHANGED <<menu, cart, orderItems, nextOrderId, managers, crew, req,
                   bookings, breq>>
    /\ IF SingleOrderGate(u, "PUT", pk) # 0
       THEN response' = SingleOrderGate(u, "PUT", pk) /\ UNCHANGED orders
       ELSE IF ~OrderPutSerializerValid(target)
       THEN response' = 400 /\ UNCHANGED orders
       ELSE IF target \notin Users
       THEN response' = 404 /\ UNCHANGED orders
       ELSE /\ orders' = (orders \ {OrderById(pk)})
                            \cup {AssignCrew(OrderById(pk), target)}
            /\ response' = 201

SingleOrderDelete(u, pk) ==
    /\ UNCHANGED <<menu, cart, nextOrderId, managers, crew, req, bookings,
                   breq>>
    /\ IF SingleOrderGate(u, "DELETE", pk) # 0
       THEN /\ response' = SingleOrderGate(u, "DELETE", pk)
            /\ UNCHANGED <<orders, orderItems>>
       ELSE /\ orders' = orders \ {OrderById(pk)}
            /\ orderItems' = orderItems \ ItemsOf(pk)
            /\ response' = 200

----------------------------------------------------------------------------
(* Group membership: ManagersListView, ManagersRemoveView,                 *)
(* DeliveryCrewListView, DeliveryCrewRemoveView                            *)

GroupGate(u) ==
    IF ~IsAuthenticated(u) THEN 401
    ELSE IF IsManager(u) \/ IsAdminUser(u) THEN 0 ELSE 403

ManagersPost(u, target) ==
    /\ UNCHANGED <<menu, cart, orders, orderItems, nextOrderId, crew, req,
                   bookings, breq>>
    /\ IF GroupGate(u) # 0
       THEN response' = GroupGate(u) /\ UNCHANGED managers
       ELSE IF target \notin Users
       THEN response' = 404 /\ UNCHANGED managers
       ELSE managers' = managers \cup {target} /\ response' = 201

ManagersDelete(u, target) ==
    /\ UNCHANGED <<menu, cart, orders, orderItems, nextOrderId, crew, req,
                   bookings, breq>>
    /\ IF GroupGate(u) # 0
       THEN response' = GroupGate(u) /\ UNCHANGED managers
       ELSE IF target \notin Users
       THEN response' = 404 /\ UNCHANGED managers
       ELSE managers' = managers \ {target} /\ response' = 200

DeliveryCrewPost(u, target) ==
    /\ UNCHANGED <<menu, cart, orders, orderItems, nextOrderId, managers,
                   req, bookings, breq>>
    /\ IF GroupGate(u) # 0
       THEN response' = GroupGate(u) /\ UNCHANGED crew
       ELSE IF target \notin Users
       THEN response' = 404 /\ UNCHANGED crew
       ELSE crew' = crew \cup {target} /\ response' = 201

DeliveryCrewDelete(u, target) ==
    /\ UNCHANGED <<menu, cart, orders, orderItems, nextOrderId, managers,
                   req, bookings, breq>>
    /\ IF GroupGate(u) # 0
       THEN response' = GroupGate(u) /\ UNCHANGED crew
       ELSE IF target \notin Users
       THEN response' = 404 /\ UNCHANGED crew
       ELSE crew' = crew \ {target} /\ response' = 201

----------------------------------------------------------------------------
(* Booking service: restaurant.views.bookings, one statement per step *)

SlotTaken(slot) == \E i \in 1..Len(bookings) : bookings[i].slot = slot

\* exist = Booking.objects.filter(...).filter(...).exists()
BookingCheck(r, name, slot) ==
    /\ breq[r].pc = "idle"
    /\ UNCHANGED <<menu, cart, orders, orderItems, nextOrderId, managers,
                   crew, req, bookings>>
    /\ IF SlotTaken(slot)
       THEN response' = 200 /\ UNCHANGED breq
       ELSE /\ breq' = [breq EXCEPT ![r] = [pc |-> "save", name |-> name,
                                            slot |-> slot]]
            /\ response' = 0

\* booking.save(), then the listing that ends the request
BookingSave(r) ==
    /\ breq[r].pc = "save"
    /\ UNCHANGED <<menu, cart, orders, orderItems, nextOrderId, managers,
                   crew, req>>
    /\ bookings' = Append(bookings, [first_name |-> breq[r].name,
                                     slot |-> breq[r].slot])
    /\ breq' = [breq EXCEPT ![r] = BIdle]
    /\ response' = 200

----------------------------------------------------------------------------
(* Specifications *)

\* cart and checkout requests of two customers, one Place order in flight
NextCheckout ==
    \/ \E m \in MenuItems, q \in Quantities : CartPost("u1", m, q)
    \/ \E q \in Quantities : CartPost("u2", "m1", q)
    \/ \E u \in Customers, m \in MenuItems \cup {Null} : CartDelete(u, m)
    \/ \E m \in MenuItems : MenuItemDelete("admin", m)
    \/ \E u \in Customers :
          /\ nextOrderId <= MaxCheckoutOrders \/ CartOf(u) = {}
          /\ PlaceOrderBegin("r1", u)
    \/ PlaceOrderCreate("r1")
    \/ PlaceOrderRead("r1")
    \/ PlaceOrderGetItem("r1")
    \/ PlaceOrderCreateItem("r1")
    \/ PlaceOrderClear("r1")

SpecCheckout == Init /\ [][NextCheckout]_vars

\* orders of one dish each, and the staff requests on them
NextOrders ==
    \/ \E u \in Customers : CartPost(u, "m1", 1)
    \/ \E u \in Customers :
          /\ nextOrderId <= MaxOrders /\ CartOf(u) # {}
          /\ PlaceOrderBegin("r1", u)
    \/ PlaceOrderCreate("r1")
    \/ PlaceOrderRead("r1")
    \/ PlaceOrderGetItem("r1")
    \/ PlaceOrderCreateItem("r1")
    \/ PlaceOrderClear("r1")
    \/ \E u \in Users : OrderList(u)
    \/ \E u \in Users, pk \in 1..MaxOrders : SingleOrderGet(u, pk)
    \/ \E u \in Requesters, pk \in 1..MaxOrders : SingleOrderPatch(u, pk)
    \/ \E u \in Requesters, pk \in 1..MaxOrders : SingleOrderPut(u, pk, "u2")
    \/ \E u \in Requesters, pk \in 1..MaxOrders : SingleOrderDelete(u, pk)
    \/ \E u \in Staff : ManagersPost(u, "u2")
    \/ \E u \in Staff : ManagersDelete(u, "u2")
    \/ \E u \in Staff : DeliveryCrewPost(u, "u2")
    \/ \E u \in Staff : DeliveryCrewDelete(u, "u2")

SpecOrders == Init /\ [][NextOrders]_vars

\* concurrent Create booking requests
NextBooking ==
    \/ \E r \in Reqs, n \in Names, s \in Slots :
          /\ Len(bookings) < MaxBookings
          /\ BookingCheck(r, n, s)
    \/ \E r \in Reqs : BookingSave(r)

SpecBooking == Init /\ [][NextBooking]_vars

\* concurrent Place order requests of one customer over one cart
NextRace ==
    \/ \E q \in Quantities : CartPost("u1", "m1", q)
    \/ \E r \in Reqs :
          /\ nextOrderId <= MaxOrders
          /\ PlaceOrderBegin(r, "u1")
    \/ \E r \in Reqs : PlaceOrderCreate(r)
    \/ \E r \in Reqs : PlaceOrderRead(r)
    \/ \E r \in Reqs : PlaceOrderGetItem(r)
    \/ \E r \in Reqs : PlaceOrderCreateItem(r)
    \/ \E r \in Reqs : PlaceOrderClear(r)

SpecRace == Init /\ [][NextRace]_vars

----------------------------------------------------------------------------
(* Properties *)

RowKeys(rows) == {[menuitem |-> c.menuitem, quantity |-> c.quantity] : c \in rows}

\* a Place order request that passed the non-empty test ends on this step
PlaceOrderEnds(r) == req[r].pc # "idle" /\ req'[r].pc = "idle"

\* C1: a Place order request of a user with a non-empty cart ends with 201,
\* one new not-delivered Order whose total is the sum of the prices of the cart
\* rows read when the request started, one OrderItem per such row (same
\* menuitem and quantity), the user's cart empty and the other carts untouched.
C1_PlaceOrderSucceeds ==
    [][\A r \in Reqs :
          PlaceOrderEnds(r) =>
             /\ response' = 201
             /\ \E o \in orders' :
                   /\ o.id = req[r].order
                   /\ o.user = req[r].user
                   /\ o.status = FALSE
                   /\ o.total = SumPrice(req[r].x)
             /\ RowKeys({i \in orderItems' : i.order = req[r].order})
                   = RowKeys(req[r].x)
             /\ {c \in cart' : c.user = req[r].user} = {}
             /\ {c \in cart' : c.user # req[r].user}
                   = {c \in cart : c.user # req[r].user}]_vars

\* C2: Place order by a user whose cart is empty answers 400 and leaves the
\* Order, OrderItem and Cart tables as they were.
C2_EmptyCartBadRequest ==
    [][\A r \in Reqs, u \in Users :
          (CartOf(u) = {} /\ PlaceOrderBegin(r, u)) =>
             /\ response' = 400
             /\ orders' = orders
             /\ orderItems' = orderItems
             /\ cart' = cart
             /\ req'[r].pc = "idle"]_vars

\* an empty-cart Place order was refused while orders, order items and other
\* users' cart rows exist
C2_Witness ==
    /\ response = 400
    /\ orders # {}
    /\ orderItems # {}
    /\ cart # {}
    /\ \E u \in Customers : CartOf(u) = {}

\* C3: a Place order request that fails partway leaves no Order and no
\* OrderItem of its own behind, and does not touch the cart.
C3_PlaceOrderAtomic ==
    [][\A r \in Reqs :
          (PlaceOrderEnds(r) /\ response' # 201) =>
             /\ \A o \in orders' : o.id # req[r].order
             /\ \A i \in orderItems' : i.order # req[r].order
             /\ cart' = cart]_vars

UniqueCart ==
    \A c1, c2 \in cart :
       (c1.user = c2.user /\ c1.menuitem = c2.menuitem) => c1 = c2

\* C4: the cart holds at most one row per (user, menuitem) in every reachable
\* state, and Add item for a pair that has a row answers 409 and leaves the
\* cart as it was.
C4_CartUnique ==
    /\ []UniqueCart
    /\ [][\A c \in cart, q \in Quantities :
             CartPost(c.user, c.menuitem, q)
                => (response' = 409 /\ cart' = cart)]_vars

\* an Add item was answered 409 while u1 holds a row for every dish and u2 a
\* row of quantity 2, and an order has been placed
C4_Witness ==
    /\ response = 409
    /\ \A m \in MenuItems : \E c \in cart : c.user = "u1" /\ c.menuitem = m
    /\ \E c \in cart : c.user = "u2" /\ c.quantity = 2
    /\ orders # {}

\* C5: there is at most one Booking per (reservation_date, reservation_slot)
\* under every interleaving of the check and insert steps of the requests.
C5_OneBookingPerSlot ==
    \A i, j \in 1..Len(bookings) :
       bookings[i].slot = bookings[j].slot => i = j

\* C6: List orders gives a Manager or Admin every Order, a Delivery crew
\* member (not Manager/Admin) the Orders assigned to them, and anyone else the
\* Orders they placed, so no customer sees another customer's order.
C6_ListRoleScoped ==
    \A u \in Users :
       LET staff == u \in managers \/ u \in Superusers
           seen == {o.id : o \in get_queryset(u)}
       IN /\ staff => seen = {o.id : o \in orders}
          /\ (~staff /\ u \in crew) =>
                \A o \in orders : o.id \in seen <=> o.delivery_crew = u
          /\ (~staff /\ u \notin crew) =>
                \A o \in orders : o.id \in seen <=> o.user = u

\* u2, in the Delivery crew group only, is assigned one order and not another;
\* u1, a customer, placed one of two orders
C6_Witness ==
    /\ "u2" \in crew \ managers
    /\ \E o1, o2 \in orders :
          /\ o1.user = "u1" /\ o2.user = "u2"
          /\ o1.delivery_crew = "u2" /\ o2.delivery_crew = Null
    /\ response = 200

\* C7: Toggle delivered negates the status of its order and changes nothing
\* else (the order's other fields, its OrderItems, the other orders), and two
\* applications in a row give the order back.
C7_ToggleInvolution ==
    /\ [](\A o \in orders :
             /\ ToggleStatus(o).status = ~o.status
             /\ ToggleStatus(ToggleStatus(o)) = o)
    /\ [][\A o \in orders \ orders' :
             (response' = 200 /\ \E u \in Requesters : SingleOrderPatch(u, o.id)) =>
                   LET pk == o.id
                   IN /\ \E p \in orders' :
                            /\ p.id = pk
                            /\ p.status = ~o.status
                            /\ p.user = o.user
                            /\ p.delivery_crew = o.delivery_crew
                            /\ p.total = o.total
                            /\ p.date = o.date
                      /\ {p \in orders' : p.id # pk}
                            = {p \in orders : p.id # pk}
                      /\ orderItems' = orderItems]_vars

\* an order with its item was toggled to delivered beside an untouched order
C7_Witness ==
    /\ response = 200
    /\ \E o1, o2 \in orders :
          /\ o1.status /\ ~o2.status
          /\ ItemsOf(o1.id) # {} /\ ItemsOf(o2.id) # {}

\* the requester passes the gate of a single-order write
MayAssignOrDelete(u) == u \in managers \/ u \in Superusers

MayToggle(u) == u \in managers \/ u \in Superusers \/ u \in crew

\* C8: on an existing order, PUT and DELETE pass the gate only for a Manager
\* or Admin and PATCH only for a Manager, Admin or Delivery crew member; anyone
\* else, the order's owner included, gets 401 or 403, and a request answered
\* so leaves every order and OrderItem as it was; no step that changes an
\* order is a write by a requester outside those roles.
C8_SingleOrderGate ==
    /\ [](\A u \in Requesters, o \in orders :
             /\ SingleOrderGate(u, "PUT", o.id) = 0 <=> MayAssignOrDelete(u)
             /\ SingleOrderGate(u, "DELETE", o.id) = 0 <=> MayAssignOrDelete(u)
             /\ SingleOrderGate(u, "PATCH", o.id) = 0 <=> MayToggle(u)
             /\ \A method \in {"PUT", "DELETE", "PATCH"} :
                   SingleOrderGate(u, method, o.id) \in {0, 401, 403})
    /\ [][response' \in {401, 403} =>
             (orders' = orders /\ orderItems' = orderItems)]_vars
    /\ [][\A o \in orders \ orders', u \in Requesters :
             /\ ~MayAssignOrDelete(u) =>
                   ~(SingleOrderPut(u, o.id, "u2") \/ SingleOrderDelete(u, o.id))
             /\ ~MayToggle(u) => ~SingleOrderPatch(u, o.id)]_vars

\* an anonymous write on a single order was refused with 401 while u1 owns an
\* order, nobody is Manager or Delivery crew, and assignment and toggling have
\* acted on an order
C8_Witness ==
    /\ response = 401
    /\ managers = {} /\ crew = {}
    /\ \E o \in orders : o.user = "u1" /\ ItemsOf(o.id) # {}
    /\ \E o \in orders : o.delivery_crew = "u2" /\ o.status

\* C9: every Order's delivery_crew is null or a member of the Delivery crew
\* group.
C9_CrewInGroup ==
    \A o \in orders : o.delivery_crew = Null \/ o.delivery_crew \in crew

\* C10: a single-order request (GET, PATCH, PUT, DELETE) for an order id that
\* does not exist is answered 404 and changes no table.
C10_MissingOrderNotFound ==
    [][\A u \in Requesters, pk \in 1..MaxOrders :
          (/\ ~OrderExists(pk)
           /\ \/ SingleOrderGet(u, pk)
              \/ SingleOrderPatch(u, pk)
              \/ SingleOrderPut(u, pk, "u2")
              \/ SingleOrderDelete(u, pk)) =>
             /\ response' = 404
             /\ orders' = orders /\ orderItems' = orderItems
             /\ cart' = cart]_vars

\* a Place order request past its Order insert
HasOrder(r) == req[r].pc \in {"read", "loop", "item"}

\* C11: Place order is check-then-act with no transaction or lock: the total
\* of the Order a request inserts is the sum over the cart rows of its first
\* read, and while one request of a user is between its check and its cart
\* delete, another request of that user passes the non-empty test over the
\* same cart rows.
C11_CheckThenAct ==
    \A r \in Reqs :
       /\ HasOrder(r) =>
             \E o \in orders :
                /\ o.id = req[r].order
                /\ o.user = req[r].user
                /\ o.total = SumPrice(req[r].x)
       /\ \A s \in Reqs \ {r} :
             (/\ req[r].pc # "idle"
              /\ req[s].pc = "idle"
              /\ CartOf(req[r].user) # {}) =>
                ENABLED (/\ PlaceOrderBegin(s, req[r].user)
                         /\ req'[s].pc = "create"
                         /\ req'[s].x = CartOf(req[r].user))

\* both requests of u1 passed the non-empty test over the same cart rows and
\* each inserted an Order with the total of those rows
C11_Witness ==
    /\ HasOrder("r1") /\ HasOrder("r2")
    /\ req["r1"].user = req["r2"].user
    /\ req["r1"].x = req["r2"].x
    /\ req["r1"].x # {}
    /\ req["r1"].order # req["r2"].order
    /\ \E o1, o2 \in orders :
          /\ o1.id = req["r1"].order /\ o2.id = req["r2"].order
          /\ o1.total = SumPrice(req["r1"].x)
          /\ o2.total = o1.total
    /\ CartOf(req["r1"].user) = req["r1"].x

====
